---- MODULE Spec2Model ----
(***************************************************************************)
(* State-machine model of scrollPager (the paged viewport navigator) and   *)
(* of the throttle helper it wraps its wheel handler in.                   *)
(*                                                                         *)
(* Time is in milliseconds on a grid of TickMs.  The code uses clock       *)
(* readings only through differences, so every stored reading is kept      *)
(* relative to the present instant: `now` is 0, a reading taken d ms ago   *)
(* is -d, a timeout due in d ms is d, and the passing of time (tick)       *)
(* shifts every stored reading.  A reading older than the threshold it is  *)
(* compared with stays at that threshold.  One clock stands for Date.now() *)
(* and for the timestamps handed to animation-frame callbacks.             *)
(*                                                                         *)
(* Promise reactions are microtasks: the phase "thenQueued" is the gap     *)
(* between a resolved beforeChange promise and its reaction, in which only *)
(* synchronous API calls of the running task can happen.                   *)
(***************************************************************************)
EXTENDS Integers, Sequences, FiniteSets, TLC

\* ------------------------------------------------------------ bounds
MaxN == 3
TickMs == 300
ViewportExtent == 600

\* ------------------------------------------------- program constants
QuickSwipeMs == 300
SwipePx == 50
DefaultDelay == 500

VARIABLES
  ctor,            \* how the call of scrollPager itself ended
  config,          \* the merged options object (immutable after construction)
  thr,             \* throttle closure: the time and type it was created with
  originalPages,   \* Array.from(containerEl.children) at construction
  pages,           \* the visual sequence (with sentinel clones when inserted)
  children,        \* containerEl's live child collection
  currentIndex,    \* visual index
  isAnimating,
  rafPending,      \* whether the callback named by animationFrameId is still scheduled
  startTimestamp,  \* Null, or the timestamp of the first frame
  startPosition,
  targetPosition,
  offs,            \* per page of `pages`: the percentage of its translate transform
  startTouch,      \* NoTouch (null) or the recorded start of a gesture
  listeners,       \* the container's registered event listeners
  lastTime,        \* throttle closure: time of the last execution, Never = the initial 0
  timer,           \* throttle closure: the deferred call still scheduled, if any
  phase,           \* where the in-flight scrollTo is
  pend,            \* the in-flight command: who issued it, and its closure values
  destroyed,       \* destroy() has been called
  threw,           \* the latest destroy() call ended by throwing
  touchOwn,        \* startTouch was recorded by the latest touchstart event
  nextRun,         \* next() calls settled in a row since construction, -1 once another command was accepted
  calls            \* the hook invocations the last step made, in order

vars == <<ctor, config, thr, originalPages, pages, children, currentIndex, isAnimating,
          rafPending, startTimestamp, startPosition, targetPosition, offs,
          startTouch, listeners, lastTime, timer, phase, pend, destroyed,
          threw, touchOwn, nextRun, calls>>

\* ------------------------------------------------------------ values
\* the present instant (Date.now(), or the timestamp of a frame)
now == 0
\* lastTime starts as 0, which is Date.now() ms in the past
Epoch == 100 * TickMs
Never == now - Epoch
\* startTimestamp = null; no reading is in the future, so 1 is free to mark it
Null == 1

NoTouch == [set |-> FALSE, x |-> 0, y |-> 0, time |-> 0]
NoTimer == [pending |-> FALSE, due |-> 0, dx |-> 0, dy |-> 0]
NoCmd == [src |-> "none", arg |-> 0, prevIndex |-> 0,
          needsReset |-> FALSE, resetIndex |-> 0]

Page(k) == [kind |-> "page", of |-> k]
Clone(k) == [kind |-> "clone", of |-> k]

Pct(v) == [nan |-> FALSE, v |-> v]
NaNPct == [nan |-> TRUE, v |-> 0]

Abs(v) == IF v < 0 THEN 0 - v ELSE v
Min2(a, b) == IF a < b THEN a ELSE b
Max2(a, b) == IF a > b THEN a ELSE b

N == Len(originalPages)

\* ------------------------------------------------- construction
\* lines 2102-2111: the sentinel clones are made only for infinite and N > 1
BuildPages(orig, inf) ==
  IF inf /\ Len(orig) > 1
    THEN <<Clone(orig[Len(orig)].of)>> \o orig \o <<Clone(orig[1].of)>>
    ELSE orig

\* lines 2078-2099 and 2375: how scrollPager(container, options) ends for a
\* container that does or does not resolve and has n element children.  It has
\* no throw statement: both early exits are a plain return, the first after
\* console.error, the second after the container's style has been assigned.
Constructed(found, n) ==
  IF ~found
    THEN [result |-> "undefined", threw |-> FALSE, logged |-> TRUE, styled |-> FALSE]
  ELSE IF n = 0
    THEN [result |-> "undefined", threw |-> FALSE, logged |-> FALSE, styled |-> TRUE]
  ELSE [result |-> "instance", threw |-> FALSE, logged |-> FALSE, styled |-> TRUE]

\* line 2127
InitialIndex(inf) == IF inf THEN 1 ELSE 0

\* lines 2135-2144 (pages are numbered from 0 in the source, from 1 here)
InitOffsets(pgs, cur) == [i \in 1..Len(pgs) |-> Pct(((i - 1) - cur) * 100)]

\* lines 2352, 2370-2372: what addEventListener registered
WheelListener == [type |-> "wheel", fn |-> "wheelWrapper"]
TouchListeners == {[type |-> "touchstart", fn |-> "handleTouchStart"],
                   [type |-> "touchmove", fn |-> "handleTouchMove"],
                   [type |-> "touchend", fn |-> "handleTouchEnd"]}

Durations == {0, TickMs}
Directions == {"vertical", "horizontal"}

\* lines 2068-2076; beforeChange and afterChange: whether a function was given
Configs == [duration : Durations, direction : Directions, infinite : BOOLEAN,
            throttleTime : {TickMs}, sensitivity : {1}, beforeChange : BOOLEAN,
            afterChange : {TRUE}]

Init ==
  /\ config \in Configs
  /\ \E n \in 1..MaxN :
       /\ originalPages = [k \in 1..n |-> Page(k - 1)]
       /\ config.direction = "horizontal" => n = 1
  /\ ctor = Constructed(TRUE, Len(originalPages))
  /\ thr = [time |-> config.throttleTime, type |-> TRUE]
  /\ pages = BuildPages(originalPages, config.infinite)
  /\ children = pages
  /\ currentIndex = InitialIndex(config.infinite)
  /\ isAnimating = FALSE
  /\ rafPending = FALSE
  /\ startTimestamp = Null
  /\ startPosition = 0
  /\ targetPosition = 0
  /\ offs = InitOffsets(pages, currentIndex)
  /\ startTouch = NoTouch
  /\ listeners = {WheelListener} \cup TouchListeners
  /\ lastTime = Never
  /\ timer = NoTimer
  /\ phase = "idle"
  /\ pend = NoCmd
  /\ destroyed = FALSE
  /\ threw = FALSE
  /\ touchOwn = FALSE
  /\ nextRun = 0
  /\ calls = <<>>

\* ------------------------------------------------- pure helpers
getOriginalIndexSwapped(index) ==
  IF ~config.infinite THEN index
  ELSE IF index <= 0 THEN 0
  ELSE IF index >= Len(pages) - 1 THEN Len(originalPages) - 1
  ELSE index - 1

getOriginalIndexNoShift(index) ==
  IF ~config.infinite THEN index
  ELSE IF index <= 0 THEN Len(originalPages) - 1
  ELSE IF index >= Len(pages) - 1 THEN 0
  ELSE index

\* lines 2224-2230
getOriginalIndex(index) ==
  IF ~config.infinite THEN index
  ELSE IF index <= 0 THEN Len(originalPages) - 1
  ELSE IF index >= Len(pages) - 1 THEN 0
  ELSE index - 1

\* line 2151
ClampIndex(index) == Max2(0, Min2(index, Len(pages) - 1))

\* line 2208: Math.min((timestamp - startTimestamp) / config.duration, 1) as a
\* fraction num/den; 0/0 is NaN and x/0 (x > 0) is Infinity, whose minimum with 1 is 1
Progress(elapsed, dur) ==
  IF dur = 0
    THEN IF elapsed = 0 THEN [nan |-> TRUE, num |-> 0, den |-> 1]
                        ELSE [nan |-> FALSE, num |-> 1, den |-> 1]
    ELSE IF elapsed >= dur THEN [nan |-> FALSE, num |-> 1, den |-> 1]
                           ELSE [nan |-> FALSE, num |-> elapsed, den |-> dur]

ProgressBelowOneAlways(p) == TRUE

\* line 2212: progress < 1 (false for NaN)
ProgressBelowOne(p) == ~p.nan /\ p.num < p.den

\* lines 2233-2254: the translate percentage of every page
updatePagesPosition(isInstant, p, cur, sp, tp) ==
  [i \in 1..Len(pages) |->
     IF isInstant \/ (~p.nan /\ p.num = p.den)
       THEN Pct(((i - 1) - cur) * 100)
       ELSE IF p.nan THEN NaNPct
       ELSE LET startValue == ((i - 1) - sp) * 100
                endValue == ((i - 1) - tp) * 100
            IN Pct(startValue + ((endValue - startValue) * p.num) \div p.den)]

NeedsResetNever(cur) == FALSE

\* lines 2163-2174: the seamless-jump decision taken when the hook has resolved
NeedsReset(cur) ==
  config.infinite /\ Len(pages) > 1 /\ (cur >= Len(pages) - 1 \/ cur <= 0)

ResetIndexSwapped(cur) ==
  IF config.infinite /\ Len(pages) > 1
    THEN IF cur >= Len(pages) - 1 THEN Len(pages) - 2
         ELSE IF cur <= 0 THEN 1
         ELSE cur
    ELSE cur

ResetIndex(cur) ==
  IF config.infinite /\ Len(pages) > 1
    THEN IF cur >= Len(pages) - 1 THEN 1
         ELSE IF cur <= 0 THEN Len(pages) - 2
         ELSE cur
    ELSE cur

\* ------------------------------------------------- scrollTo
cfgVars == <<ctor, config, thr, originalPages, pages>>
animVars == <<rafPending, startTimestamp, startPosition, targetPosition, offs>>
inputVars == <<startTouch, lastTime, timer, touchOwn>>
navVars == <<currentIndex, isAnimating, phase, pend, nextRun>>

\* line 2148
ScrollToBusyOff == FALSE
ScrollToBusy == isAnimating

\* line 2152
AcceptedAnimatingOff == FALSE
AcceptedAnimating == TRUE

BeforeChangeCallVisual(prev, target, cmd) ==
  <<[hook |-> "beforeChange", a |-> prev, b |-> target,
     animating |-> TRUE, index |-> target, cmd |-> cmd]>>

\* lines 2155-2159: the call of config.beforeChange, made after currentIndex
\* and isAnimating were assigned
BeforeChangeCall(prev, target, cmd) ==
  <<[hook |-> "beforeChange", a |-> getOriginalIndex(prev),
     b |-> getOriginalIndex(target),
     animating |-> TRUE, index |-> target, cmd |-> cmd]>>

\* lines 2147-2161: scrollTo up to the point where it hands its reaction to
\* the beforeChange promise.  src and arg record who issued the command.
scrollTo(index, src, arg) ==
  IF ScrollToBusy
    THEN /\ UNCHANGED navVars
         /\ calls' = <<>>
    ELSE /\ currentIndex' = ClampIndex(index)
         /\ isAnimating' = AcceptedAnimating
         /\ pend' = [src |-> src, arg |-> arg, prevIndex |-> currentIndex,
                     needsReset |-> FALSE, resetIndex |-> 0]
         /\ nextRun' = IF src = "next" /\ nextRun >= 0
                          THEN IF nextRun = Len(originalPages) THEN 0 ELSE nextRun
                          ELSE 0 - 1
         /\ IF config.beforeChange
              THEN /\ calls' = BeforeChangeCall(currentIndex, currentIndex', pend')
                   /\ phase' = "hookPending"
              ELSE /\ calls' = <<>>
                   /\ phase' = "thenQueued"

\* ------------------------------------------------- public API
NextIndexClamped == Min2(currentIndex + 1, Len(originalPages) - 1)

\* lines 2376-2381
NextIndex ==
  IF config.infinite THEN currentIndex + 1
  ELSE Min2(currentIndex + 1, Len(originalPages) - 1)

\* lines 2382-2387
PrevIndex ==
  IF config.infinite THEN currentIndex - 1
  ELSE Max2(currentIndex - 1, 0)

\* line 2388
ToVisualSeedSame(index) == index
ToVisualSeed(index) == IF config.infinite THEN index + 1 ELSE index

\* line 2389
getCurrentIndex == getOriginalIndex(currentIndex)

\* line 2390
getTotalPages == Len(originalPages)

ApiUnchanged == UNCHANGED <<cfgVars, children, animVars, inputVars, listeners,
                            destroyed, threw>>

next ==
  /\ scrollTo(NextIndex, "next", 0)
  /\ ApiUnchanged

prev ==
  /\ scrollTo(PrevIndex, "prev", 0)
  /\ ApiUnchanged

ScrollArgs == (0 - 1)..Len(originalPages)

apiScrollToK(k) ==
  /\ scrollTo(ToVisualSeed(k), "scrollTo", k)
  /\ ApiUnchanged

apiScrollTo == \E k \in ScrollArgs : apiScrollToK(k)


\* ------------------------------------------------- beforeChange promise
\* the thenable returned by config.beforeChange settles to fulfilment
hookResolve ==
  /\ phase = "hookPending"
  /\ phase' = "thenQueued"
  /\ calls' = <<>>
  /\ UNCHANGED <<currentIndex, isAnimating, pend, nextRun>>
  /\ ApiUnchanged

\* line 2161: then() is given no rejection handler, so a thenable that settles
\* to rejection runs no reaction at all
hookReject ==
  /\ phase = "hookPending"
  /\ phase' = "vetoed"
  /\ calls' = <<>>
  /\ UNCHANGED <<currentIndex, isAnimating, pend, nextRun>>
  /\ ApiUnchanged

\* lines 2161-2190 and 2194-2220: the reaction to the resolved promise decides
\* the seamless jump and calls animateScroll(isInstant), which requests the
\* first animation frame.  No caller of scrollTo passes isInstant, so it is
\* false (line 2147) and lines 2196-2200 never run.
runThen ==
  /\ phase = "thenQueued"
  /\ pend' = [pend EXCEPT !.needsReset = NeedsReset(currentIndex),
                          !.resetIndex = ResetIndex(currentIndex)]
  /\ startTimestamp' = Null
  /\ startPosition' = currentIndex
  /\ targetPosition' = currentIndex
  /\ rafPending' = TRUE
  /\ phase' = "frame"
  /\ calls' = <<>>
  /\ UNCHANGED <<cfgVars, children, currentIndex, isAnimating, offs, inputVars,
                 listeners, destroyed, threw, nextRun>>

AfterChangeCallRaw(animating, index, cmd) ==
  <<[hook |-> "afterChange", a |-> index, b |-> 0,
     animating |-> animating, index |-> index, cmd |-> cmd]>>

\* lines 2257-2261, with the values of isAnimating and currentIndex at the call
\* and the command the call reports on
AfterChangeCall(animating, index, cmd) ==
  IF config.afterChange
    THEN <<[hook |-> "afterChange", a |-> getOriginalIndex(index), b |-> 0,
            animating |-> animating, index |-> index, cmd |-> cmd]>>
    ELSE <<>>

\* lines 2206-2217, and on the last frame the reaction of lines 2178-2188,
\* which runs as a microtask right after the frame callback
frame ==
  /\ phase = "frame"
  /\ rafPending
  /\ LET st == IF startTimestamp = Null THEN now ELSE startTimestamp
         p == Progress(now - st, config.duration)
         moved == updatePagesPosition(FALSE, p, currentIndex, startPosition,
                                      targetPosition)
     IN /\ startTimestamp' = st
        /\ IF ProgressBelowOne(p)
             THEN /\ offs' = moved
                  /\ rafPending' = TRUE
                  /\ calls' = <<>>
                  /\ UNCHANGED navVars
             ELSE /\ rafPending' = FALSE
                  /\ isAnimating' = FALSE
                  /\ phase' = "idle"
                  /\ IF pend.needsReset
                       THEN /\ currentIndex' = pend.resetIndex
                            /\ offs' = updatePagesPosition(TRUE, p, currentIndex',
                                         startPosition, targetPosition)
                       ELSE /\ currentIndex' = currentIndex
                            /\ offs' = moved
                  /\ calls' = AfterChangeCall(isAnimating', currentIndex', pend)
                  /\ pend' = NoCmd
                  /\ nextRun' = IF nextRun >= 0 THEN nextRun + 1 ELSE nextRun
  /\ UNCHANGED <<cfgVars, children, startPosition, targetPosition,
                 inputVars, listeners, destroyed, threw>>

\* ------------------------------------------------- destroy
\* removeEventListener removes the listener registered with that type and function
RemoveListener(ls, type, fn) == ls \ {[type |-> type, fn |-> fn]}

\* lines 2393-2396
DestroyListeners(ls) ==
  RemoveListener(
    RemoveListener(
      RemoveListener(
        RemoveListener(ls, "wheel", "throttledWheel"),
        "touchstart", "handleTouchStart"),
      "touchmove", "handleTouchMove"),
    "touchend", "handleTouchEnd")

IsChild(x) == \E i \in 1..Len(children) : children[i] = x
RemoveChildKeep(seq, x) == seq
RemoveChild(seq, x) == SelectSeq(seq, LAMBDA c : c # x)

\* line 2392: cancelAnimationFrame(animationFrameId)
CancelFrame(pending) == FALSE

\* lines 2391-2403; removeChild throws when its argument is not a child
destroy ==
  /\ rafPending' = CancelFrame(rafPending)
  /\ phase' = IF phase = "frame" /\ ~rafPending' THEN "cancelled" ELSE phase
  /\ listeners' = DestroyListeners(listeners)
  /\ IF config.infinite /\ Len(pages) > Len(originalPages)
       THEN IF IsChild(pages[Len(pages)])
              THEN IF IsChild(pages[1])
                     THEN /\ children' = RemoveChild(
                                RemoveChild(children, pages[Len(pages)]), pages[1])
                          /\ threw' = FALSE
                     ELSE /\ children' = RemoveChild(children, pages[Len(pages)])
                          /\ threw' = TRUE
              ELSE /\ children' = children
                   /\ threw' = TRUE
       ELSE /\ children' = children
            /\ threw' = FALSE
  /\ destroyed' = TRUE
  /\ calls' = <<>>
  /\ UNCHANGED <<cfgVars, currentIndex, isAnimating, startTimestamp,
                 startPosition, targetPosition, offs, inputVars, pend, nextRun>>

\* ------------------------------------------------- throttle
\* line 1181
ThrottleDelay(time) == IF time = 0 THEN DefaultDelay ELSE time

\* lines 1188-1204: what a call of the throttled function does (lastTime === 0
\* reads: fn has never run)
\*   "first": run fn now (leading edge of the very first call)
\*   "defer": (re)schedule fn for the end of the window
\*   "run":   run fn now, the window has passed
ThrottleDecision(immediate, delay, lt, t) ==
  IF immediate /\ lt = Never THEN "first"
  ELSE IF t - lt < delay THEN "defer"
  ELSE "run"

\* line 1200: the timeout a deferred call is scheduled with
ThrottleDue(delay, lt, t) == t + (delay - (t - lt))

\* ------------------------------------------------- wheel input
WheelEvents == {[dx |-> 0, dy |-> 100], [dx |-> 0, dy |-> 0 - 100],
                [dx |-> 100, dy |-> 0]}

AxisOf(dx, dy) == IF config.direction = "vertical" THEN dy ELSE dx

\* lines 2275 and 2356
WheelDirection(delta) == IF delta > 0 THEN 1 ELSE 0 - 1

\* lines 2279-2280 and 2358-2359
AtBoundary(direction) ==
  \/ direction < 0 /\ currentIndex = 0
  \/ direction > 0 /\ currentIndex = Len(originalPages) - 1

\* lines 2264-2288
handleWheel(dx, dy) ==
  LET direction == WheelDirection(AxisOf(dx, dy) * config.sensitivity)
  IN IF isAnimating \/ (~config.infinite /\ AtBoundary(direction))
       THEN /\ UNCHANGED navVars
            /\ calls' = <<>>
       ELSE scrollTo(currentIndex + direction, "wheel", direction)

\* lines 2351-2366: the wheel event e on the container
wheelAt(e) ==
  /\ phase # "thenQueued"
  /\ IF WheelListener \notin listeners
       THEN /\ UNCHANGED <<navVars, lastTime, timer>>
            /\ calls' = <<>>
     ELSE IF ~config.infinite /\ AtBoundary(WheelDirection(AxisOf(e.dx, e.dy)))
       THEN /\ UNCHANGED <<navVars, lastTime, timer>>
            /\ calls' = <<>>
     ELSE LET delay == ThrottleDelay(thr.time)
              d == ThrottleDecision(thr.type, delay, lastTime, now)
          IN IF d = "defer"
               THEN /\ timer' = [pending |-> TRUE,
                                 due |-> ThrottleDue(delay, lastTime, now),
                                 dx |-> e.dx, dy |-> e.dy]
                    /\ UNCHANGED <<navVars, lastTime>>
                    /\ calls' = <<>>
               ELSE /\ handleWheel(e.dx, e.dy)
                    /\ lastTime' = now
                    /\ timer' = timer
  /\ UNCHANGED <<cfgVars, children, animVars, startTouch, touchOwn,
                 listeners, destroyed, threw>>

wheel == \E e \in WheelEvents : wheelAt(e)

\* lines 1197-1200: the deferred call runs.  The source keeps the stale timer
\* id, which clearTimeout ignores; NoTimer stands for "nothing scheduled".
timerFire ==
  /\ phase # "thenQueued"
  /\ timer.pending
  /\ now >= timer.due
  /\ lastTime' = now
  /\ handleWheel(timer.dx, timer.dy)
  /\ timer' = NoTimer
  /\ UNCHANGED <<cfgVars, children, animVars, startTouch, touchOwn,
                 listeners, destroyed, threw>>

\* ------------------------------------------------- touch input
TouchStarts == {[x |-> 300, y |-> 300]}
TouchEnds == {[x |-> 300, y |-> 300], [x |-> 300, y |-> 380], [x |-> 300, y |-> 220],
              [x |-> 380, y |-> 300], [x |-> 300, y |-> 50], [x |-> 550, y |-> 300]}

Registered(type, fn) == [type |-> type, fn |-> fn] \in listeners

\* lines 2291-2300: a touchstart event (several may follow one another: one per finger)
touchStart ==
  /\ phase # "thenQueued"
  /\ \E pt \in TouchStarts :
       IF Registered("touchstart", "handleTouchStart") /\ ~isAnimating
         THEN /\ startTouch' = [set |-> TRUE, x |-> pt.x, y |-> pt.y, time |-> now]
              /\ touchOwn' = TRUE
         ELSE /\ startTouch' = startTouch
              /\ touchOwn' = FALSE
  /\ calls' = <<>>
  /\ UNCHANGED <<cfgVars, children, currentIndex, isAnimating, animVars, lastTime,
                 timer, listeners, phase, pend, destroyed, threw, nextRun>>

\* lines 2302-2315: only preventDefault, no state
touchMove ==
  /\ phase # "thenQueued"
  /\ calls' = <<>>
  /\ UNCHANGED <<cfgVars, children, currentIndex, isAnimating, animVars, inputVars,
                 listeners, phase, pend, destroyed, threw, nextRun>>

SwipeDirectionLongOnly(distance, deltaTime, extent) ==
  IF Abs(distance) * 3 > extent
    THEN IF distance > 0 THEN 1 ELSE 0 - 1
    ELSE 0

\* lines 2325-2338: the direction a finished gesture asks for, 0 for none
SwipeDirection(distance, deltaTime, extent) ==
  LET isQuickSwipe == deltaTime < QuickSwipeMs /\ Abs(distance) > SwipePx
  IN IF isQuickSwipe \/ Abs(distance) * 3 > extent
       THEN IF distance > 0 THEN 1 ELSE 0 - 1
       ELSE 0

\* lines 2317-2345: a touchend event whose changed touch is at pt
touchEndAt(pt) ==
  /\ phase # "thenQueued"
  /\ touchOwn' = FALSE
  /\ LET deltaTime == now - startTouch.time
         distance == AxisOf(pt.x - startTouch.x, pt.y - startTouch.y)
         direction == SwipeDirection(distance, deltaTime, ViewportExtent)
     IN IF Registered("touchend", "handleTouchEnd") /\ startTouch.set /\ ~isAnimating
          THEN /\ IF direction # 0
                    THEN scrollTo(currentIndex + direction, "touch", direction)
                    ELSE /\ UNCHANGED navVars
                         /\ calls' = <<>>
               /\ startTouch' = NoTouch
          ELSE /\ UNCHANGED <<navVars, startTouch>>
               /\ calls' = <<>>
  /\ UNCHANGED <<cfgVars, children, animVars, lastTime, timer, listeners,
                 destroyed, threw>>

touchEnd == \E pt \in TouchEnds : touchEndAt(pt)

\* ------------------------------------------------- time
\* a stored reading after TickMs more have passed; it stays at -keep, the
\* largest difference it is compared with
Older(t, keep) == Max2(t - TickMs, 0 - keep)

tick ==
  /\ phase # "thenQueued"
  /\ lastTime' = IF lastTime = Never THEN Never
                 ELSE Older(lastTime, ThrottleDelay(thr.time))
  /\ timer' = IF timer.pending THEN [timer EXCEPT !.due = Max2(@ - TickMs, now)]
              ELSE timer
  /\ startTouch' = IF startTouch.set
                     THEN [startTouch EXCEPT !.time = Older(@, QuickSwipeMs)]
                     ELSE startTouch
  /\ startTimestamp' = IF startTimestamp = Null THEN Null
                       ELSE Older(startTimestamp, config.duration)
  /\ calls' = <<>>
  /\ UNCHANGED <<cfgVars, children, currentIndex, isAnimating, rafPending,
                 startPosition, targetPosition, offs, touchOwn, listeners, phase,
                 pend, destroyed, threw, nextRun>>

Next ==
  \/ next
  \/ prev
  \/ apiScrollTo
  \/ hookResolve
  \/ hookReject
  \/ runThen
  \/ frame
  \/ destroy
  \/ wheel
  \/ timerFire
  \/ touchStart
  \/ touchMove
  \/ touchEnd
  \/ tick

Spec == Init /\ [][Next]_vars

\* The same program under a caller and a user that leave the instance alone once
\* destroy() has been called: no API command and no input event after it. What
\* still runs then is what the program itself has left scheduled: promise
\* reactions, animation frames and throttle timers.
Scheduled == hookResolve \/ hookReject \/ runThen \/ frame \/ timerFire \/ tick

QuietNext ==
  \/ ~destroyed /\ Next
  \/ destroyed /\ Scheduled

QuietSpec == Init /\ [][QuietNext]_vars

\* The program while nobody calls destroy() and every thenable returned by
\* beforeChange settles to fulfilment.  The host runs what it has scheduled:
\* a settled promise's reaction is a microtask and runs when the current task
\* ends, a requested animation frame is delivered, and time passes.
LiveNext ==
  \/ next
  \/ prev
  \/ apiScrollTo
  \/ hookResolve
  \/ runThen
  \/ frame
  \/ wheel
  \/ timerFire
  \/ touchStart
  \/ touchMove
  \/ touchEnd
  \/ tick

LiveSpec ==
  /\ Init
  /\ [][LiveNext]_vars
  /\ WF_vars(hookResolve)
  /\ WF_vars(runThen)
  /\ WF_vars(frame)
  /\ WF_vars(tick)

\* The program from any call of scrollPager, the failing ones included: the
\* container may not resolve, or may have no element children.  A call that
\* returned undefined leaves the caller nothing to call and has registered no
\* listener, so nothing follows it.
FailedInit ==
  /\ config \in Configs
  /\ \E found \in BOOLEAN : ctor = Constructed(found, 0)
  /\ thr = <<>>
  /\ originalPages = <<>>
  /\ pages = <<>>
  /\ children = <<>>
  /\ currentIndex = 0
  /\ isAnimating = FALSE
  /\ rafPending = FALSE
  /\ startTimestamp = Null
  /\ startPosition = 0
  /\ targetPosition = 0
  /\ offs = <<>>
  /\ startTouch = NoTouch
  /\ listeners = {}
  /\ lastTime = Never
  /\ timer = NoTimer
  /\ phase = "idle"
  /\ pend = NoCmd
  /\ destroyed = FALSE
  /\ threw = FALSE
  /\ touchOwn = FALSE
  /\ nextRun = 0
  /\ calls = <<>>

CtorInit == Init \/ FailedInit

CtorNext == ctor.result = "instance" /\ Next

CtorSpec == CtorInit /\ [][CtorNext]_vars

\* ------------------------------------------------- throttle on its own
\* The throttle helper around an arbitrary function fn, created with either
\* type and with or without a time, and called with one of three argument lists.
\* `calls` holds the execution of fn the last step made, if any.
ThrottleTimes == {0, TickMs, 2 * TickMs}
ThrottleArgs == {[dx |-> 0, dy |-> 1], [dx |-> 0, dy |-> 2], [dx |-> 0, dy |-> 3]}

FnCall(a, via) == <<[hook |-> "fn", a |-> a.dy, b |-> a.dx, via |-> via]>>

\* lines 1185-1205: one call of the throttled function
thrCallWith(a) ==
  /\ LET delay == ThrottleDelay(thr.time)
         d == ThrottleDecision(thr.type, delay, lastTime, now)
     IN IF d = "defer"
          THEN /\ timer' = [pending |-> TRUE,
                            due |-> ThrottleDue(delay, lastTime, now),
                            dx |-> a.dx, dy |-> a.dy]
               /\ lastTime' = lastTime
               /\ calls' = <<>>
          ELSE /\ calls' = FnCall(a, "call")
               /\ lastTime' = now
               /\ timer' = timer
  /\ UNCHANGED <<cfgVars, children, navVars, animVars, startTouch, touchOwn,
                 listeners, destroyed, threw>>

thrCall == \E a \in ThrottleArgs : thrCallWith(a)

\* lines 1197-1200: the timeout callback
thrTimer ==
  /\ timer.pending
  /\ now >= timer.due
  /\ lastTime' = now
  /\ calls' = FnCall(timer, "timer")
  /\ timer' = NoTimer
  /\ UNCHANGED <<cfgVars, children, navVars, animVars, startTouch, touchOwn,
                 listeners, destroyed, threw>>

ThrottleInit ==
  /\ thr \in [time : ThrottleTimes, type : BOOLEAN]
  /\ lastTime = Never
  /\ timer = NoTimer
  /\ calls = <<>>
  /\ ctor = <<>>
  /\ config = <<>>
  /\ originalPages = <<>>
  /\ pages = <<>>
  /\ children = <<>>
  /\ currentIndex = 0
  /\ isAnimating = FALSE
  /\ rafPending = FALSE
  /\ startTimestamp = Null
  /\ startPosition = 0
  /\ targetPosition = 0
  /\ offs = <<>>
  /\ startTouch = NoTouch
  /\ listeners = {}
  /\ phase = "idle"
  /\ pend = NoCmd
  /\ destroyed = FALSE
  /\ threw = FALSE
  /\ touchOwn = FALSE
  /\ nextRun = 0

ThrottleNext ==
  \/ thrCall
  \/ thrTimer
  \/ tick

ThrottleSpec == ThrottleInit /\ [][ThrottleNext]_vars

\* ================================================= claims
ValidArgs == 0..(Len(originalPages) - 1)
AfterChangeFired == calls # <<>> /\ calls[1].hook = "afterChange"
HookInvoked == calls # <<>>

\* ---- C1
\* Single-flight rejection: in every step taken from a state where isAnimating
\* is true by next(), prev(), scrollTo(k), a wheel event, a deferred delivery to
\* handleWheel or a touchend, the visual index, the transition target, the
\* guard and the in-flight command stay as they are and no hook is invoked.
C1_Command == next \/ prev \/ apiScrollTo \/ wheel \/ timerFire \/ touchEnd

C1_Rejected ==
  /\ UNCHANGED <<currentIndex, startPosition, targetPosition,
                 isAnimating, phase, pend>>
  /\ ~HookInvoked'

C1_SingleFlightRejection ==
  [][(isAnimating /\ ~C1_Rejected) => ~C1_Command]_vars

\* a transition is animating while a gesture start is on record and a deferred
\* wheel delivery is due: touchend and handleWheel both meet the busy guard
C1_Witness ==
  /\ isAnimating
  /\ phase = "frame"
  /\ startTouch.set
  /\ ENABLED timerFire

\* ---- C2
\* With wraparound, N > 1 and no beforeChange hook, N settled next() calls in a
\* row from logical index 0 end at logical index 0, and the visual sequence
\* has N+2 entries in every state.
C2_NextCycle ==
  (config.infinite /\ N > 1 /\ ~config.beforeChange)
    => /\ Len(pages) = N + 2
       /\ (nextRun = N /\ ~isAnimating) => getCurrentIndex = 0

C2_Witness ==
  /\ config.infinite /\ N = MaxN /\ ~config.beforeChange /\ config.duration > 0
  /\ nextRun = N
  /\ ~isAnimating
  /\ AfterChangeFired

\* ---- C3
\* Without wraparound, prev() while idle at logical index 0 and next() while
\* idle at logical index N-1 change nothing and invoke no hook.
C3_BoundaryNoOp ==
  [][(/\ ~config.infinite
      /\ ~isAnimating
      /\ \/ getCurrentIndex = 0 /\ prev
         \/ getCurrentIndex = N - 1 /\ next)
       => (UNCHANGED <<currentIndex, isAnimating>> /\ ~HookInvoked')]_vars

\* ---- C4
\* A scrollTo(k) with valid k issued while idle is accepted, and when its
\* transition settles afterChange is called with k and getCurrentIndex() is k.
C4_Accepted ==
  \A k \in ValidArgs :
    (~isAnimating /\ apiScrollToK(k))
      => (isAnimating' /\ pend'.src = "scrollTo" /\ pend'.arg = k)

C4_Settled ==
  (AfterChangeFired /\ calls[1].cmd.src = "scrollTo" /\ calls[1].cmd.arg \in ValidArgs)
    => (calls[1].a = calls[1].cmd.arg /\ getCurrentIndex = calls[1].cmd.arg)

C4_ScrollToSettles == [][C4_Accepted]_vars /\ []C4_Settled

C4_Witness ==
  /\ AfterChangeFired
  /\ N > 1
  /\ calls[1].cmd.src = "scrollTo"
  /\ calls[1].cmd.arg = N - 1
  /\ calls[1].cmd.prevIndex # currentIndex

\* ---- C5
\* A scrollTo(k) with k out of range issued while idle changes nothing and
\* invokes no hook.
C5_OutOfRangeNoOp ==
  [][\A k \in ScrollArgs \ ValidArgs :
       (~isAnimating /\ apiScrollToK(k))
         => (UNCHANGED <<currentIndex, isAnimating>> /\ ~HookInvoked')]_vars

\* ---- C6
\* Once the beforeChange thenable has settled to rejection the navigator is
\* idle again: isAnimating is false.
C6_VetoReturnsToIdle == phase = "vetoed" => ~isAnimating

\* ---- C7
\* A vetoed transition does not move: no panel offset changes while the hook
\* is pending, and when the thenable rejects the visual and logical index are
\* those from before the command and afterChange is not invoked.
C7_VetoDoesNotMove ==
  [][/\ phase = "hookPending" => offs' = offs
     /\ hookReject => /\ currentIndex' = pend.prevIndex
                      /\ getOriginalIndex(currentIndex') = getOriginalIndex(pend.prevIndex)
                      /\ ~AfterChangeFired']_vars

\* ---- C8
\* While the beforeChange thenable is pending the guard stays held: every step
\* other than its settling keeps isAnimating true and the command in flight,
\* and a next(), prev(), scrollTo(), wheel or touch command changes neither
\* the indices, the panel offsets, the animation state nor the recorded touch
\* start, and invokes no hook.
C8_Command ==
  next \/ prev \/ apiScrollTo \/ wheel \/ timerFire \/ touchStart \/ touchEnd

C8_Held == isAnimating' /\ phase' = "hookPending" /\ pend' = pend

C8_Rejected ==
  /\ UNCHANGED <<currentIndex, isAnimating, phase, pend, animVars,
                 startTouch, children, listeners>>
  /\ ~HookInvoked'

C8_GuardHeldWhilePending ==
  [][phase = "hookPending"
       => /\ ~C8_Held => (hookResolve \/ hookReject)
          /\ ~C8_Rejected => ~C8_Command]_vars

\* the hook is pending while a gesture start is on record and a deferred wheel
\* delivery is due
C8_Witness ==
  /\ phase = "hookPending"
  /\ isAnimating
  /\ startTouch.set
  /\ ENABLED timerFire

\* ---- C9
\* Once destroy() has been called, and with no command or input event issued
\* after it, no step changes a panel offset and none invokes afterChange.
C9_NothingAfterDestroy ==
  [][destroyed => (offs' = offs /\ ~AfterChangeFired')]_vars

\* ---- C10
\* After destroy() a wheel, touchstart or touchend event on the container
\* reaches no handler: it changes neither currentIndex nor isAnimating and
\* invokes no hook.
C10_InputDetached ==
  [][(destroyed /\ (wheel \/ touchStart \/ touchEnd))
       => (UNCHANGED <<currentIndex, isAnimating, startTouch>> /\ ~HookInvoked')]_vars

\* ---- C11
\* destroy() is idempotent: a destroy() call made after an earlier one ends
\* without throwing and leaves the container's children, the listeners, the
\* indices and the panel offsets as they were.
C11_DestroyIdempotent ==
  [][(destroyed /\ destroy)
       => (~threw' /\ UNCHANGED <<children, listeners, currentIndex,
                                  isAnimating, offs>>)]_vars

\* ---- C12
\* Once destroy() has been called the container's children are the original
\* N panels in their original order: both sentinel clones are gone when they
\* were inserted, and nothing is removed when there were none.
C12_ChildrenRestored == destroyed => children = originalPages

C12_Witness ==
  /\ destroyed
  /\ ~threw
  /\ config.infinite
  /\ N = MaxN
  /\ Len(pages) = N + 2
  /\ children = originalPages

\* ---- C13
\* A construction that fails (container not resolved, or no child panel) ends
\* by throwing to the caller and has mutated nothing: no container style, no
\* clone among the children, no listener.
C13_ConstructionFailsLoudly ==
  ctor.result # "instance"
    => (ctor.threw /\ ~ctor.styled /\ listeners = {} /\ children = originalPages)

\* ---- C14
\* Wheel throttling is leading-edge only: a wheel event that arrives within
\* throttleTime of the last handleWheel call is dropped, so no throttle timer
\* ever delivers one and a deferred delivery never gets a command accepted:
\* it changes neither currentIndex nor isAnimating and invokes no hook.
C14_LeadingEdgeOnly ==
  [][timerFire => (UNCHANGED <<currentIndex, isAnimating>> /\ ~HookInvoked')]_vars

\* ---- C15
\* Touch classification: a gesture that started with a touchstart the
\* navigator recorded and ends while idle, with elapsed time t and
\* displacement d along the configured axis, emits exactly one
\* scrollTo(currentIndex +/- 1) iff (t < 300 and |d| > 50) or |d| > E/3;
\* otherwise it emits none, changes neither currentIndex nor isAnimating and
\* invokes no hook.  t = 200, d = 80 is classified as a page advance.
C15_Advance(t, d) ==
  (t < 300 /\ Abs(d) > 50) \/ Abs(d) * 3 > ViewportExtent

C15_Emitted ==
  /\ isAnimating'
  /\ pend'.src = "touch"
  /\ pend'.arg \in {1, 0 - 1}
  /\ pend'.prevIndex = currentIndex
  /\ currentIndex' = ClampIndex(currentIndex + pend'.arg)

C15_GestureEnds ==
  /\ touchOwn
  /\ startTouch.set
  /\ ~isAnimating
  /\ Registered("touchend", "handleTouchEnd")

C16_Input == wheel \/ timerFire \/ touchEnd

C16_InputSwallowedAtBoundary ==
  [][(~config.infinite /\ ~isAnimating /\ isAnimating' /\ C16_Input)
       => currentIndex' # currentIndex]_vars

\* ---- C17
\* With wraparound, next() and prev() issued while idle are always accepted,
\* and when the transition settles at logical index i the result is
\* (i + 1) mod N for next() and (i - 1 + N) mod N for prev(), for every N >= 1.
C17_Taken == isAnimating' /\ pend'.src \in {"next", "prev"}

C17_Accepted == (config.infinite /\ ~isAnimating /\ ~C17_Taken) => ~(next \/ prev)

C17_Settled ==
  (config.infinite /\ AfterChangeFired)
    => LET i == getOriginalIndex(calls[1].cmd.prevIndex)
       IN /\ calls[1].cmd.src = "next" => getCurrentIndex = (i + 1) % N
          /\ calls[1].cmd.src = "prev" => getCurrentIndex = (i - 1 + N) % N

C17_WraparoundStep == [][C17_Accepted]_vars /\ []C17_Settled

\* prev() from logical index 0 has settled on the last page, through the
\* head sentinel and the remap
C17_Witness ==
  /\ AfterChangeFired
  /\ config.infinite
  /\ N = MaxN
  /\ calls[1].cmd.src = "prev"
  /\ calls[1].cmd.needsReset
  /\ getOriginalIndex(calls[1].cmd.prevIndex) = 0
  /\ getCurrentIndex = N - 1

\* ---- C18
\* afterChange is called once for a command, in the step that settles it: the
\* command is in flight before the call and no longer after it, isAnimating
\* is already false and the sentinel remap already applied when the hook
\* runs, and its argument is getCurrentIndex() at that moment; every settling
\* step makes the call.  With wraparound, the k-th of consecutive next()
\* calls from logical 0 reports k mod N (for N = 3: 1, 2, 0).
C18_FiredOnce ==
  AfterChangeFired'
    => /\ Len(calls') = 1
       /\ pend.src # "none"
       /\ calls'[1].cmd = pend
       /\ pend' = NoCmd
       /\ ~isAnimating'
       /\ ~calls'[1].animating
       /\ pend.needsReset => currentIndex' = pend.resetIndex
       /\ calls'[1].index = currentIndex'
       /\ calls'[1].a = getOriginalIndex(currentIndex')

C18_SettleFires == (isAnimating /\ ~isAnimating') => AfterChangeFired'

C18_Sequence ==
  (config.infinite /\ AfterChangeFired /\ nextRun >= 1)
    => calls[1].a = nextRun % N

C18_AfterChangeOnSettle ==
  [][C18_FiredOnce /\ C18_SettleFires]_vars /\ []C18_Sequence

\* N = 3 with wraparound: the third next() in a row has settled through the
\* tail sentinel and afterChange has just reported 0
C18_Witness ==
  /\ AfterChangeFired
  /\ config.infinite
  /\ N = 3
  /\ nextRun = 3
  /\ calls[1].a = 0
  /\ calls[1].cmd.src = "next"
  /\ calls[1].cmd.needsReset
  /\ ~isAnimating

\* ---- C19
\* Round trip of the index mappings: for every logical k in 0..N-1,
\* getOriginalIndex applied to the visual index the public scrollTo passes on
\* for k (k + 1 with wraparound, k without) gives k.
C19_RoundTrip ==
  \A k \in ValidArgs :
    /\ ToVisualSeed(k) = (IF config.infinite THEN k + 1 ELSE k)
    /\ getOriginalIndex(ToVisualSeed(k)) = k

\* one panel with wraparound: scrollTo(0) passed visual index 1, beyond the
\* one-entry sequence, and has settled reporting logical 0
C19_Witness ==
  /\ AfterChangeFired
  /\ config.infinite
  /\ N = 1
  /\ calls[1].cmd.src = "scrollTo"
  /\ calls[1].cmd.arg = 0
  /\ ToVisualSeed(calls[1].cmd.arg) = 1
  /\ calls[1].a = 0

\* ---- C20
\* currentIndex is a valid offset into the visual sequence in every state:
\* 0 <= currentIndex < pages.length.
C20_VisualIndexValid == 0 <= currentIndex /\ currentIndex < Len(pages)

\* ---- C21
\* Delayed mode of throttle: created with type = false, no call of the
\* throttled function executes fn at the moment the call is made, the first
\* call on a fresh throttled function included.
C21_DelayedModeDefers ==
  [][(~thr.type /\ thrCall) => calls' = <<>>]_vars

\* ---- C30
\* Throttle spacing: for a throttled function created with type = true, any
\* two consecutive executions of fn are at least delay apart, through a call
\* or through the timer: when fn is executed, its previous execution (whose
\* time lastTime holds) is at least delay in the past.
C30_ExecutionsSpaced ==
  [][(thr.type /\ calls' # <<>>)
       => (lastTime = Never \/ now - lastTime >= ThrottleDelay(thr.time))]_vars

\* ---- C22
\* Sentinels are invisible at rest: with wraparound and N > 1, whenever
\* isAnimating is false currentIndex is in 1..N; the step that settles a
\* transition landed on slot N+1 ends at slot 1, one landed on slot 0 ends at
\* slot N, and afterChange is called with the remapped index in place.
C22_AtRest ==
  (config.infinite /\ N > 1 /\ ~isAnimating) => currentIndex \in 1..N

C22_Remap ==
  (config.infinite /\ N > 1 /\ isAnimating /\ ~isAnimating')
    => /\ currentIndex = N + 1 => currentIndex' = 1
       /\ currentIndex = 0 => currentIndex' = N
       /\ AfterChangeFired'
       /\ calls'[1].index = currentIndex'

C22_SentinelsInvisibleAtRest == []C22_AtRest /\ [][C22_Remap]_vars

\* scrollTo(-1) landed on the head sentinel and has settled on slot N
C22_Witness ==
  /\ config.infinite
  /\ N = MaxN
  /\ ~isAnimating
  /\ AfterChangeFired
  /\ calls[1].cmd.src = "scrollTo"
  /\ calls[1].cmd.arg = 0 - 1
  /\ calls[1].cmd.needsReset
  /\ currentIndex = N

\* ---- C23
\* Idle positioning: whenever isAnimating is false (duration > 0), panel i of
\* the visual sequence has offset (i - currentIndex) * 100 percent, and exactly
\* one panel, the one at currentIndex, sits at offset 0.
C23_Placed ==
  \A i \in 1..Len(pages) : offs[i] = Pct(((i - 1) - currentIndex) * 100)

C23_IdlePositioning ==
  (~isAnimating /\ config.duration > 0)
    => /\ C23_Placed
       /\ Cardinality({i \in 1..Len(pages) : offs[i] = Pct(0)}) = 1
       /\ currentIndex + 1 \in 1..Len(pages)
       /\ offs[currentIndex + 1] = Pct(0)

\* ---- C24
\* getOriginalIndex is the mapping from visual slot to logical index: with
\* wraparound slot 0 gives N-1, slot N+1 gives 0 and any other slot v gives
\* v-1; without it slot v gives v.  In every state getCurrentIndex() is that
\* mapping of currentIndex and lies in 0..N-1.
C24_Slots == IF config.infinite THEN 0..(N + 1) ELSE 0..(N - 1)

C24_ToLogical(v) ==
  IF ~config.infinite THEN v
  ELSE IF v = 0 THEN N - 1
  ELSE IF v = N + 1 THEN 0
  ELSE v - 1

C24_LogicalIndex ==
  /\ \A v \in C24_Slots : getOriginalIndex(v) = C24_ToLogical(v)
  /\ currentIndex \in C24_Slots
  /\ getCurrentIndex = C24_ToLogical(currentIndex)
  /\ getCurrentIndex \in 0..(N - 1)

\* an animation is under way on the head sentinel, which reads as page N-1
C24_Witness ==
  /\ config.infinite
  /\ N = MaxN
  /\ phase = "frame"
  /\ currentIndex = 0
  /\ getCurrentIndex = N - 1

\* ---- C25
\* A step that accepts a command (isAnimating goes from false to true) with
\* beforeChange configured invokes beforeChange exactly once, with the logical
\* index before the command and the logical index of the target; beforeChange
\* is invoked on no other step; no panel offset changes while the thenable is
\* pending or its reaction is queued; offsets change only in frame callbacks,
\* which run after the reaction.
C25_Accepts == ~isAnimating /\ isAnimating'

C25_BeforeChangeInvoked == calls' # <<>> /\ calls'[1].hook = "beforeChange"

C25_HookOrdering ==
  [][/\ (C25_Accepts /\ config.beforeChange) =>
          /\ Len(calls') = 1
          /\ calls'[1].hook = "beforeChange"
          /\ calls'[1].a = getOriginalIndex(currentIndex)
          /\ calls'[1].b = getOriginalIndex(currentIndex')
     /\ C25_BeforeChangeInvoked => C25_Accepts
     /\ C25_Accepts => (phase' \in {"hookPending", "thenQueued"} /\ offs' = offs)
     /\ phase \in {"hookPending", "thenQueued"} => offs' = offs
     /\ offs' # offs => phase = "frame"]_vars

\* next() on the last page with wraparound: the hook is told N-1 -> 0 while
\* the visual indices are N -> N+1, and the thenable is still pending
C25_Witness ==
  /\ config.infinite
  /\ N = MaxN
  /\ phase = "hookPending"
  /\ calls # <<>>
  /\ calls[1].hook = "beforeChange"
  /\ calls[1].a = N - 1
  /\ calls[1].b = 0
  /\ calls[1].cmd.prevIndex = N
  /\ currentIndex = N + 1
  /\ offs = [i \in 1..Len(pages) |-> Pct(((i - 1) - N) * 100)]

\* ---- C26
\* For an accepted command that moves from visual index a to visual index b,
\* a # b, with a positive duration: while its frames run startPosition is a
\* and targetPosition is b, and the first frame (progress 0) places panel i
\* at offset (i - a) * 100.
C26_Moving ==
  /\ phase = "frame"
  /\ config.duration > 0
  /\ pend.prevIndex # currentIndex

C26_InterpolatesFromOld ==
  [][(C26_Moving /\ startTimestamp = Null /\ frame) =>
        /\ startPosition = pend.prevIndex
        /\ targetPosition = currentIndex
        /\ offs' = [i \in 1..Len(pages) |->
                      Pct(((i - 1) - pend.prevIndex) * 100)]]_vars

\* ---- C27
\* When nobody calls destroy(), the beforeChange thenable resolves and frames
\* keep being delivered, every state with a command in flight is followed by
\* a state where the navigator is idle again and, if afterChange is
\* configured, afterChange has just been fired; with sentinels in place that
\* state is on a real page, so a command that ran onto a sentinel has been
\* remapped by then.
C27_Settled ==
  /\ ~isAnimating
  /\ phase = "idle"
  /\ config.afterChange => AfterChangeFired
  /\ (config.infinite /\ N > 1) => currentIndex \in 1..N

C27_Terminates == isAnimating ~> C27_Settled

\* a touch swipe whose animation ended through the remap branch, with both
\* hooks configured and a positive duration
C27_Witness ==
  /\ config.beforeChange
  /\ config.afterChange
  /\ config.duration > 0
  /\ C27_Settled
  /\ calls[1].cmd.src = "touch"
  /\ calls[1].cmd.needsReset
  /\ N = MaxN

\* ---- C28
\* Whenever a touchend event emits a command (the guard goes from false to
\* true for a command of the touch handler), the start position and time it
\* was measured against were recorded by the latest touchstart event, with no
\* touchend since: the handler of that gesture's own touchstart wrote them.
C28_Emits == ~isAnimating /\ isAnimating' /\ pend'.src = "touch"

C28_OwnStart == [][(~touchOwn /\ ~isAnimating /\ touchEnd) => ~C28_Emits]_vars

\* ---- C29
\* Every wheel event that gets a command accepted has a non-zero delta along
\* the configured axis, and the command asks for currentIndex + 1 when that
\* delta is positive and for currentIndex - 1 when it is negative; an event
\* with delta 0 along the axis emits no command.
C29_Asks(d) ==
  /\ pend'.src = "wheel"
  /\ pend'.arg = d
  /\ currentIndex' = ClampIndex(currentIndex + d)

C29_Accepted(e) == ~isAnimating /\ isAnimating' /\ wheelAt(e)

C29_DirectionFollowsSign ==
  [][\A e \in WheelEvents :
       C29_Accepted(e) =>
         \/ AxisOf(e.dx, e.dy) > 0 /\ C29_Asks(1)
         \/ AxisOf(e.dx, e.dy) < 0 /\ C29_Asks(0 - 1)]_vars

====
